---- MODULE Spec2Model ----
(***************************************************************************)
(* Option pricing engine of OpcionesA3Mercados: the generalized            *)
(* Black-Scholes model (BlackScholes), the binomial lattice                *)
(* (BinomialOpVal), the Bjerksund-Stensland 1993 approximation (BS93Amer)  *)
(* and the three implied-volatility bisection solvers.                     *)
(*                                                                         *)
(* Numbers are fixed point.  Prices (s, k, prima), rates (r, q) and sigma  *)
(* are integers in units of h = 0.01, the finite-difference step of the    *)
(* code, so that a bump by h is +/- 1.  T is in units of half a            *)
(* micro-year.  A volatility inside a solver is in units of                *)
(* 1/VolScale(fn), chosen so that every midpoint of the bisection is an    *)
(* integer.  A value the code obtains from exp/log/N is not computed: it   *)
(* is a "formula" result that records which formula was evaluated and at   *)
(* which arguments, and a solver compares it with the premium through an   *)
(* oracle.  The backward induction of the lattice is run in numbers on a   *)
(* tree whose exponentials are powers of 2: exp(sigma * sqrt(dt)) = 2 and  *)
(* exp(x * dt) = 2^x for a rate x in units of h; a product or quotient is  *)
(* rounded down to an integer in units of h.                               *)
(***************************************************************************)
EXTENDS Integers, Sequences, FiniteSets, TLC

VARIABLES pc, fn, args, oracle, high, low, counter, evals, result, OptionValue, loopJ, loopI

vars == <<pc, fn, args, oracle, high, low, counter, evals, result, OptionValue, loopJ, loopI>>

----------------------------------------------------------------------------
\* Bounds of the model.

\* r ranges over 0..MaxRate (units of 0.01).
MaxRate == 1
\* q ranges over 0..MaxYield (units of 0.01).
MaxYield == 1
\* the largest step count n of a lattice call.
MaxSteps == 3

----------------------------------------------------------------------------
\* Program constants.

\* 1/h: the units per 1.0 of prices, rates and sigma (h = 0.01).
Scale == 100
\* T units per year (one unit is 0.5e-6 year, half of the 1e-6 floor of hT).
TYear == 2 * 1000 * 1000
\* counter > 100 returns "NA".
MaxIterations == 100

Max(a, b) == IF a >= b THEN a ELSE b
Min(a, b) == IF a <= b THEN a ELSE b

\* A missing (undefined) argument.
Missing == "<undefined>"

\* String.prototype.toLowerCase on the strings of the model.
ToLowerCase(str) ==
  CASE str = "PUT" -> "put"
    [] str = "Futuro" -> "futuro"
    [] str = "Equity_Style" -> "equity_style"
    [] str = "Americana" -> "americana"
    [] OTHER -> str

\* estilo_liquidacion ? estilo_liquidacion.toLowerCase() : ""
NormEstilo(estilo) ==
  IF estilo = Missing \/ estilo = "" THEN "" ELSE ToLowerCase(estilo)

\* Messages of the errors thrown and of the sentinels returned.
ErrEstiloBS == "Indicar estilo de liquidacion: 'futures_style' o 'equity_style'"
ErrEstiloBinomial ==
  "Indicar estilo de liquidacion: 'futures_style', 'equity_style' o 'matba_rofex_style'"
ErrTipo == "tipo_subyacente debe ser 'accion' o 'futuro'."
ErrTipoBS93 == "tipo_subyacente debe ser 'accion' o 'futuro'"
ErrPasos == "El numero de pasos 'n' debe ser un entero mayor que 1."
ErrCallPut == "El tipo de opcion debe ser 'call' o 'put'"
ParametroInvalido == "Parametro invalido"
ParametroNoReconocido == "Parametro no reconocido."

----------------------------------------------------------------------------
\* Values a call produces.

NoPoint == [form |-> "", s |-> 0, k |-> 0, T |-> 0, r |-> 0, b |-> 0, sigma |-> 0]

\* One evaluation of a pricing formula: which one, and its arguments.
Point(form, s, k, T, r, b, sigma) ==
  [form |-> form, s |-> s, k |-> k, T |-> T, r |-> r, b |-> b, sigma |-> sigma]

\* No value: no call has returned.
NoValue ==
  [kind |-> "none", val |-> 0, msg |-> "", side |-> "", calls |-> <<>>, arr |-> 0,
   nodes |-> <<>>, nested |-> <<>>, depth |-> 0]

\* An exactly known number.
Number(v) == [NoValue EXCEPT !.kind = "number", !.val = v]

\* throw new Error(m)
Thrown(m) == [NoValue EXCEPT !.kind = "error", !.msg = m]

\* A string returned in place of a number.
Sentinel(m) == [NoValue EXCEPT !.kind = "sentinel", !.msg = m]

\* A number given by formula `greek` of the call/put branch `side`, evaluated at `calls`.
Formula(greek, side, calls) ==
  [NoValue EXCEPT !.kind = "formula", !.msg = greek, !.side = side, !.calls = calls]

\* value[parametro] of a key that Object.prototype defines: an object, not a number.
Inherited(key) == [NoValue EXCEPT !.kind = "object", !.msg = key]

\* The keys of Object.prototype among the selectors of the model.
ObjectPrototypeKeys == {"constructor"}

\* v with the length of the OptionValue array that was allocated.
WithArray(v, len) == [v EXCEPT !.arr = len]

----------------------------------------------------------------------------
\* BlackScholes

\* BSCarry without the reset of r under futures_style.
BSCarryKeepsRate(r, q, tipo_subyacente, estilo_liquidacion) ==
  IF tipo_subyacente = "futuro"
  THEN IF estilo_liquidacion # "futures_style" /\ estilo_liquidacion # "equity_style"
       THEN [err |-> ErrEstiloBS, b |-> 0, r |-> r]
       ELSE [err |-> "", b |-> 0, r |-> r]
  ELSE IF tipo_subyacente = "accion"
       THEN [err |-> "", b |-> r - q, r |-> r]
       ELSE [err |-> ErrTipo, b |-> 0, r |-> r]

\* BSCarry with the three styles of the lattice accepted.
BSCarryThreeStyles(r, q, tipo_subyacente, estilo_liquidacion) ==
  IF tipo_subyacente = "futuro"
  THEN IF estilo_liquidacion \notin {"futures_style", "equity_style", "matba_rofex_style"}
       THEN [err |-> ErrEstiloBS, b |-> 0, r |-> r]
       ELSE [err |-> "", b |-> 0,
             r |-> IF estilo_liquidacion = "futures_style" THEN 0 ELSE r]
  ELSE IF tipo_subyacente = "accion"
       THEN [err |-> "", b |-> r - q, r |-> r]
       ELSE [err |-> ErrTipo, b |-> 0, r |-> r]

\* The carry b and the rate r used after the underlying/settlement block.
BSCarry(r, q, tipo_subyacente, estilo_liquidacion) ==
  IF tipo_subyacente = "futuro"
  THEN IF estilo_liquidacion # "futures_style" /\ estilo_liquidacion # "equity_style"
       THEN [err |-> ErrEstiloBS, b |-> 0, r |-> r]
       ELSE [err |-> "", b |-> 0,
             r |-> IF estilo_liquidacion = "futures_style" THEN 0 ELSE r]
  ELSE IF tipo_subyacente = "accion"
       THEN [err |-> "", b |-> r - q, r |-> r]
       ELSE [err |-> ErrTipo, b |-> 0, r |-> r]

\* The keys of the object `value`.
BSKeys == {"prima", "delta", "theta", "gamma", "gammap", "vega", "rho"}

\* BSDegenerate with the delta of the lattice's T <= 0 branch.
BSDegenerateSignDelta(parametro, s, k, CallPut) ==
  LET payoff == IF CallPut = "call" THEN Max(s - k, 0) ELSE Max(k - s, 0)
      delta == (IF CallPut = "call" THEN 1 ELSE -1) * (IF s # k THEN 1 ELSE 0)
  IN Number(IF parametro = "prima" THEN payoff
            ELSE IF parametro = "delta" THEN delta ELSE 0)

\* The T <= 0 branch.
BSDegenerate(parametro, s, k, CallPut) ==
  LET payoff == IF CallPut = "call" THEN Max(s - k, 0) ELSE Max(k - s, 0)
      delta == IF CallPut = "call" THEN (IF s > k THEN 1 ELSE 0)
                                   ELSE (IF s < k THEN -1 ELSE 0)
  IN Number(IF parametro = "prima" THEN payoff
            ELSE IF parametro = "delta" THEN delta ELSE 0)

\* Math.log(s / k) in units of 0.0001, for the spots of the model: log(1.1) = 0.0953,
\* log(0.9) = -0.1054.
Ln(s, k) == IF s = k THEN 0 ELSE IF s > k THEN 953 ELSE -1054

\* 2 / T times the numerator of d1, log(s / k) + (b + sigma^2 / 2) * T, in units of
\* 0.0001: it has the sign of d1.
D1(s, k, T, b, sigma) == 2 * Ln(s, k) * (TYear \div T) + 200 * b + sigma * sigma

\* The same for d2 = d1 - sigma * sqrt(T).
D2(s, k, T, b, sigma) == 2 * Ln(s, k) * (TYear \div T) + 200 * b - sigma * sigma

\* N without the reflection of negative arguments.
NWithoutReflection(x) == [unit |-> 0, approx |-> 1]

\* N(x) = unit + approx * A(|x|), where A(y) = 1 - normaldf(y) * poly(y) is `approx`:
\* x >= 0 ? approx : 1 - approx.
N(x) == IF x >= 0 THEN [unit |-> 0, approx |-> 1] ELSE [unit |-> 1, approx |-> -1]

\* 1, and N(0) = A(0) = 0.5000000005248086, in units of 1e-9.
One == 1000 * 1000 * 1000
NZero == 500 * 1000 * 1000 + 1

\* -1 times a value of N.
Minus(n) == [unit |-> -n.unit, approx |-> -n.approx]

\* value.prima as coefficient * s * df_b + coefficient * k * df_r, at the evaluation
\* point `at` of the call.
BSPrimaTerms(CallPut, at) ==
  LET d1 == D1(at.s, at.k, at.T, at.b, at.sigma)
      d2 == D2(at.s, at.k, at.T, at.b, at.sigma)
  IN
  IF CallPut = "call"
     THEN [spot |-> N(d1), strike |-> Minus(N(d2))]
     ELSE [spot |-> Minus(N(-d1)), strike |-> N(-d2)]

\* value[parametro] for T > 0.
BSValue(parametro, s, k, T, r, b, sigma, CallPut, tipo_subyacente, estilo_liquidacion) ==
  LET side == IF CallPut = "call" THEN "call" ELSE "put"
      at == <<Point("BlackScholes", s, k, T, r, b, sigma)>>
  IN IF parametro = "rho"
     THEN IF tipo_subyacente = "futuro"
          THEN IF estilo_liquidacion = "equity_style"
               THEN Formula("rho_equity_style", side, at)
               ELSE Number(0)
          ELSE Formula("rho", side, at)
     ELSE IF parametro \in BSKeys THEN Formula(parametro, side, at)
     ELSE IF parametro \in ObjectPrototypeKeys THEN Inherited(parametro)
     ELSE Sentinel(ParametroInvalido)

BlackScholes(parametro0, s, k, T, r0, q, sigma, CallPut0, tipo0, estilo0) ==
  LET parametro == ToLowerCase(parametro0)
      CallPut == ToLowerCase(CallPut0)
      tipo_subyacente == ToLowerCase(tipo0)
      estilo_liquidacion == NormEstilo(estilo0)
      c == BSCarry(r0, q, tipo_subyacente, estilo_liquidacion)
  IN IF c.err # "" THEN Thrown(c.err)
     ELSE IF T <= 0 THEN BSDegenerate(parametro, s, k, CallPut)
     ELSE BSValue(parametro, s, k, T, c.r, c.b, sigma, CallPut,
                  tipo_subyacente, estilo_liquidacion)

----------------------------------------------------------------------------
\* BinomialOpVal

\* BinomialCarry with r reset under futures_style whatever the underlying.
BinomialCarryResetsEquityRate(r, q, tipo_subyacente, estilo_liquidacion) ==
  IF tipo_subyacente = "futuro"
  THEN IF estilo_liquidacion \notin {"futures_style", "equity_style", "matba_rofex_style"}
       THEN [err |-> ErrEstiloBinomial, b |-> 0, r |-> r]
       ELSE [err |-> "", b |-> 0,
             r |-> IF estilo_liquidacion = "futures_style" THEN 0 ELSE r]
  ELSE IF tipo_subyacente = "accion"
       THEN [err |-> "", b |-> r - q,
             r |-> IF estilo_liquidacion = "futures_style" THEN 0 ELSE r]
       ELSE [err |-> ErrTipo, b |-> 0, r |-> r]

\* BinomialCarry without the reset of r under futures_style.
BinomialCarryKeepsRate(r, q, tipo_subyacente, estilo_liquidacion) ==
  IF tipo_subyacente = "futuro"
  THEN IF estilo_liquidacion \notin {"futures_style", "equity_style", "matba_rofex_style"}
       THEN [err |-> ErrEstiloBinomial, b |-> 0, r |-> r]
       ELSE [err |-> "", b |-> 0, r |-> r]
  ELSE IF tipo_subyacente = "accion"
       THEN [err |-> "", b |-> r - q, r |-> r]
       ELSE [err |-> ErrTipo, b |-> 0, r |-> r]

\* The carry b and the rate r used after the underlying/settlement block.
BinomialCarry(r, q, tipo_subyacente, estilo_liquidacion) ==
  IF tipo_subyacente = "futuro"
  THEN IF estilo_liquidacion \notin {"futures_style", "equity_style", "matba_rofex_style"}
       THEN [err |-> ErrEstiloBinomial, b |-> 0, r |-> r]
       ELSE [err |-> "", b |-> 0,
             r |-> IF estilo_liquidacion = "futures_style" THEN 0 ELSE r]
  ELSE IF tipo_subyacente = "accion"
       THEN [err |-> "", b |-> r - q, r |-> r]
       ELSE [err |-> ErrTipo, b |-> 0, r |-> r]

\* BadSteps without the integer test.
BadStepsAtMostOne(nh) == nh <= 2

\* !Number.isInteger(n) || n <= 1, n given in halves (nh = 2n).
BadSteps(nh) == nh % 2 # 0 \/ nh <= 2

\* The T <= 0 branch.
BinomialDegenerate(parametro, s, k, z) ==
  LET payoff == Max(0, z * (s - k))
  IN IF parametro = "prima" THEN Number(payoff)
     ELSE IF parametro = "delta" THEN Number(z * (IF s # k THEN 1 ELSE 0))
     ELSE Number(0)

\* BinomialBump that returns the upper re-evaluation alone.
BinomialBumpOneSided(greek, side, up, down) ==
  IF up.kind = "error" THEN up
  ELSE IF down.kind = "error" THEN down
  ELSE Formula(greek, side, up.calls)

\* (up - down) / 2 of two nested "prima" calls; two calls that evaluate the same tree
\* return the same number, and the difference is the number 0.
BinomialBump(greek, side, up, down) ==
  IF up.kind = "error" THEN up
  ELSE IF down.kind = "error" THEN down
  ELSE IF up = down THEN Number(0)
  ELSE Formula(greek, side, up.calls \o down.calls)

\* The levels the backward loop visits: j = n - 1 down to 0.
LatticeLevels(n) == [m \in 1..n |-> n - m]

\* OptionValue[i] when the loop is at level j.
Node(j, i) == [level |-> j, index |-> i]

\* The nodes a Greek read off the tree is made of: the `if (j === ...)` blocks that the
\* loop reaches assign Gamma, C21, Delta and C00; the others keep their initial 0.
LatticeNodes(parametro, n) ==
  LET levels == LatticeLevels(n)
      reached(j) == \E m \in 1..Len(levels) : levels[m] = j
      Gamma == IF reached(2) THEN <<Node(2, 2), Node(2, 1), Node(2, 0)>> ELSE <<>>
      C21 == IF reached(2) THEN <<Node(2, 1)>> ELSE <<>>
      Delta == IF reached(1) THEN <<Node(1, 1), Node(1, 0)>> ELSE <<>>
      C00 == IF reached(0) THEN <<Node(0, 0)>> ELSE <<>>
  IN CASE parametro = "gamma" -> Gamma
       [] parametro = "theta" -> C21 \o C00
       [] parametro = "delta" -> Delta
       [] OTHER -> C00

\* Prima, Delta, Gamma or Theta: a variable no block assigned is the number 0.
LatticeValue(parametro, side, at, n) ==
  LET nodes == LatticeNodes(parametro, n)
  IN IF nodes = <<>> THEN Number(0)
     ELSE [Formula(parametro, side, at) EXCEPT !.nodes = nodes]

\* The backward induction the tree runs: with the daily accrual of the intrinsic value
\* (intrinsic * interestFactor) for a matba_rofex_style future, without it otherwise.
LatticeForm(tipo_subyacente, estilo_liquidacion) ==
  IF tipo_subyacente = "futuro" /\ estilo_liquidacion = "matba_rofex_style"
  THEN "lattice_matba_rofex"
  ELSE "lattice"

\* The selector, volatility and rate passed to a nested BinomialOpVal call.
NestedCall(parametro, sigma, r) == [parametro |-> parametro, sigma |-> sigma, r |-> r]

\* v with the nested calls made for it: `down` is not called when `up` throws; the depth
\* of the recursion is one more than that of the deepest nested call.
WithNested(v, upCall, up, downCall, down) ==
  [v EXCEPT !.nested = IF up.kind = "error" THEN <<upCall>> ELSE <<upCall, downCall>>,
            !.depth = 1 + (IF up.kind = "error" THEN up.depth ELSE Max(up.depth, down.depth))]

RECURSIVE BinomialOpVal(_, _, _, _, _, _, _, _, _, _, _, _)
BinomialOpVal(parametro, s, k, T, r0, q, sigma, CallPut0, EuroAmer0, nh, tipo0, estilo0) ==
  IF BadSteps(nh) THEN Thrown(ErrPasos)
  ELSE
    LET CallPut == ToLowerCase(CallPut0)
        EuroAmer == ToLowerCase(EuroAmer0)
        tipo_subyacente == ToLowerCase(tipo0)
        estilo_liquidacion == NormEstilo(estilo0)
        n == nh \div 2
        z == IF CallPut = "call" THEN 1 ELSE -1
        side == IF z = 1 THEN "call" ELSE "put"
        c == BinomialCarry(r0, q, tipo_subyacente, estilo_liquidacion)
        r == c.r
        at == <<Point(LatticeForm(tipo_subyacente, estilo_liquidacion), s, k, T, r, c.b, sigma)>>
    IN IF c.err # "" THEN Thrown(c.err)
       ELSE IF T <= 0 THEN BinomialDegenerate(parametro, s, k, z)
       ELSE IF parametro = "vega"
            THEN LET upCall == NestedCall("prima", sigma + 1, r)
                     downCall == NestedCall("prima", sigma - 1, r)
                     up == BinomialOpVal(upCall.parametro, s, k, T, upCall.r, q, upCall.sigma,
                                         CallPut, EuroAmer, nh, tipo_subyacente,
                                         estilo_liquidacion)
                     down == BinomialOpVal(downCall.parametro, s, k, T, downCall.r, q,
                                           downCall.sigma, CallPut, EuroAmer, nh,
                                           tipo_subyacente, estilo_liquidacion)
                 IN WithNested(WithArray(BinomialBump("vega", side, up, down), n + 1),
                               upCall, up, downCall, down)
       ELSE IF parametro = "rho"
            THEN LET upCall == NestedCall("prima", sigma, r + 1)
                     downCall == NestedCall("prima", sigma, r - 1)
                     up == BinomialOpVal(upCall.parametro, s, k, T, upCall.r, q, upCall.sigma,
                                         CallPut, EuroAmer, nh, tipo_subyacente,
                                         estilo_liquidacion)
                     down == BinomialOpVal(downCall.parametro, s, k, T, downCall.r, q,
                                           downCall.sigma, CallPut, EuroAmer, nh,
                                           tipo_subyacente, estilo_liquidacion)
                 IN WithNested(WithArray(BinomialBump("rho", side, up, down), n + 1),
                               upCall, up, downCall, down)
       ELSE IF parametro \in {"prima", "delta", "gamma", "theta"}
            THEN WithArray(LatticeValue(parametro, side, at, n), n + 1)
       ELSE WithArray(Sentinel(ParametroNoReconocido), n + 1)

----------------------------------------------------------------------------
\* BS93Amer

\* BS93AmericanCall with the European branch taken only when b > r.
BS93AmericanCallStrict(S, X, T, r, b, sigma) ==
  IF b > r THEN "BS_EuropeanCall" ELSE "BS93"

\* The formula BS93AmericanCall prices with: the European closed form when b >= r.
BS93AmericanCall(S, X, T, r, b, sigma) ==
  IF b >= r THEN "BS_EuropeanCall" ELSE "BS93"

\* One evaluation f(S, X, T, r, b, sigma); a put is priced as the call (X, S, r - b, -b).
BS93AmericanOption(optionType, S, X, T, r, b, sigma) ==
  IF ToLowerCase(optionType) = "put"
  THEN [err |-> "", at |-> Point(BS93AmericanCall(X, S, T, r - b, -b, sigma), S, X, T, r, b, sigma)]
  ELSE IF ToLowerCase(optionType) = "call"
       THEN [err |-> "", at |-> Point(BS93AmericanCall(S, X, T, r, b, sigma), S, X, T, r, b, sigma)]
       ELSE [err |-> ErrCallPut, at |-> NoPoint]

\* A finite difference of the evaluations fs, made in order; the first that throws ends the call.
BS93Difference(greek, side, fs) ==
  IF \E i \in 1..Len(fs) : fs[i].err # ""
  THEN Thrown(fs[CHOOSE i \in 1..Len(fs) :
                     fs[i].err # "" /\ \A j \in 1..(i - 1) : fs[j].err = ""].err)
  ELSE Formula(greek, side, [i \in 1..Len(fs) |-> fs[i].at])

\* h = 0.01 year, in units of T.
HT == TYear \div Scale
\* 1e-6 year, in units of T.
MicroYear == TYear \div (1000 * 1000)

\* hT = Math.min(h, Math.max(1e-6, 0.5 * T))
ThetaStep(T) == Min(HT, Max(MicroYear, T \div 2))

BS93Amer(parametro0, s, k, T, r, q, sigma, CallPut0, tipo0) ==
  LET parametro == ToLowerCase(parametro0)
      CallPut == ToLowerCase(CallPut0)
      tipo_subyacente == ToLowerCase(tipo0)
      b == IF tipo_subyacente = "accion" THEN r - q ELSE 0
      f(s_, k_, T_, r_, b_, sigma_) == BS93AmericanOption(CallPut, s_, k_, T_, r_, b_, sigma_)
      priceWithR(rLocal) ==
        BS93AmericanOption(CallPut, s, k, T, rLocal,
                           IF tipo_subyacente = "accion" THEN rLocal - q ELSE 0, sigma)
      hT == ThetaStep(T)
  IN IF tipo_subyacente \notin {"accion", "futuro"} THEN Thrown(ErrTipoBS93)
     ELSE CASE parametro = "prima" ->
                 BS93Difference("prima", CallPut, <<f(s, k, T, r, b, sigma)>>)
            [] parametro = "delta" ->
                 BS93Difference("delta", CallPut,
                   <<f(s + 1, k, T, r, b, sigma), f(s - 1, k, T, r, b, sigma)>>)
            [] parametro = "gamma" ->
                 BS93Difference("gamma", CallPut,
                   <<f(s + 1, k, T, r, b, sigma), f(s, k, T, r, b, sigma),
                     f(s - 1, k, T, r, b, sigma)>>)
            [] parametro = "theta" ->
                 BS93Difference("theta", CallPut,
                   <<f(s, k, T - hT, r, b, sigma), f(s, k, T + hT, r, b, sigma)>>)
            [] parametro = "vega" ->
                 BS93Difference("vega", CallPut,
                   <<f(s, k, T, r, b, sigma + 1), f(s, k, T, r, b, sigma - 1)>>)
            [] parametro = "rho" ->
                 BS93Difference("rho", CallPut, <<priceWithR(r + 1), priceWithR(r - 1)>>)
            [] OTHER -> Sentinel(ParametroInvalido)

\* BS93Amer of the file "Bjerksund & Stensland_1993.js": theta is the backward difference
\* over h = 0.01 year, rho bumps r and keeps the carry b of the unbumped rate.
BS93Amer1993(parametro0, s, k, T, r, q, sigma, CallPut0, tipo0) ==
  LET parametro == ToLowerCase(parametro0)
      CallPut == ToLowerCase(CallPut0)
      tipo_subyacente == ToLowerCase(tipo0)
      b == IF tipo_subyacente = "accion" THEN r - q ELSE 0
      f(s_, k_, T_, r_, b_, sigma_) == BS93AmericanOption(CallPut, s_, k_, T_, r_, b_, sigma_)
  IN IF tipo_subyacente \notin {"accion", "futuro"} THEN Thrown(ErrTipoBS93)
     ELSE CASE parametro = "prima" ->
                 BS93Difference("prima", CallPut, <<f(s, k, T, r, b, sigma)>>)
            [] parametro = "delta" ->
                 BS93Difference("delta", CallPut,
                   <<f(s + 1, k, T, r, b, sigma), f(s - 1, k, T, r, b, sigma)>>)
            [] parametro = "gamma" ->
                 BS93Difference("gamma", CallPut,
                   <<f(s + 1, k, T, r, b, sigma), f(s, k, T, r, b, sigma),
                     f(s - 1, k, T, r, b, sigma)>>)
            [] parametro = "theta" ->
                 BS93Difference("theta", CallPut,
                   <<f(s, k, T - HT, r, b, sigma), f(s, k, T, r, b, sigma)>>)
            [] parametro = "vega" ->
                 BS93Difference("vega", CallPut,
                   <<f(s, k, T, r, b, sigma + 1), f(s, k, T, r, b, sigma - 1)>>)
            [] parametro = "rho" ->
                 BS93Difference("rho", CallPut,
                   <<f(s, k, T, r + 1, b, sigma), f(s, k, T, r - 1, b, sigma)>>)
            [] OTHER -> Sentinel(ParametroInvalido)

----------------------------------------------------------------------------
\* The backward induction of BinomialOpVal, in numbers.

\* Math.exp(x * dt) for a rate x in units of h, as a fraction: dt makes exp(h * dt) = 2.
ExpDt(x) == IF x >= 0 THEN [num |-> 2 ^ x, den |-> 1] ELSE [num |-> 1, den |-> 2 ^ (-x)]

\* u = Math.exp(sigma * Math.sqrt(dt)); d = 1 / u.
Up == 2

\* p = (Math.exp(b * dt) - d) / (u - d), as a fraction.
Probability(b) ==
  LET e == ExpDt(b)
  IN [num |-> e.num * Up - e.den, den |-> e.den * (Up * Up - 1)]

\* ST = s * Math.pow(u, i) * Math.pow(d, j - i)
SpotAt(s, j, i) == (s * Up ^ i) \div Up ^ (j - i)

\* Math.max(0, z * (ST - k)) at node (j, i).
Intrinsic(a, j, i) ==
  LET z == IF ToLowerCase(a.CallPut) = "call" THEN 1 ELSE -1
  IN Max(0, z * (SpotAt(a.s, j, i) - a.k))

\* expected at node (j, i), from OptionValue[i] (below) and OptionValue[i + 1] (above).
Expected(a, j, i, below, above) ==
  LET c == BinomialCarry(a.r, a.q, ToLowerCase(a.tipo), NormEstilo(a.estilo))
      p == Probability(c.b)
      Df == ExpDt(-c.r)
      compound == ExpDt(c.r)
      intrinsic == Intrinsic(a, j, i)
      futureVal == (p.num * above + (p.den - p.num) * below) \div p.den
      interest == (intrinsic * (compound.num - compound.den)) \div compound.den
  IN IF ToLowerCase(a.tipo) = "futuro" /\ NormEstilo(a.estilo) = "matba_rofex_style"
     THEN (Df.num * (interest + futureVal)) \div Df.den
     ELSE (Df.num * futureVal) \div Df.den

\* The node value without the early-exercise test.
NodeValueNeverExercised(a, j, i, below, above) == Expected(a, j, i, below, above)

\* The value stored at node (j, i).
NodeValue(a, j, i, below, above) ==
  IF ToLowerCase(a.EuroAmer) = "americana"
  THEN Max(Intrinsic(a, j, i), Expected(a, j, i, below, above))
  ELSE Expected(a, j, i, below, above)

\* Array(n + 1).fill(0) and the terminal payoffs.
TerminalValues(a) ==
  LET n == a.nh \div 2
  IN [i \in 0..n |-> Intrinsic(a, n, i)]

\* The body of the inner loop at node (j, i): OptionValue[i] is overwritten.
NodeStep(a, V, j, i) == [V EXCEPT ![i] = NodeValue(a, j, i, V[i], V[i + 1])]

\* The inner loop run with i descending from j.
LoopIndexDescending(j, c) == j - c

\* The index i of iteration number c (from 0) of the inner loop at level j: i ascends.
LoopIndex(j, c) == c

\* The array after c iterations of the inner loop at level j.
RECURSIVE ArrayAt(_, _, _)
ArrayAt(a, j, c) ==
  IF c = 0
  THEN IF j = a.nh \div 2 - 1 THEN TerminalValues(a) ELSE ArrayAt(a, j + 1, j + 2)
  ELSE NodeStep(a, ArrayAt(a, j, c - 1), j, LoopIndex(j, c - 1))

----------------------------------------------------------------------------
\* The implied-volatility solvers.

\* "NA"
NA == Sentinel("NA")

\* Units per 1.0 of a volatility inside solver f: 0.0001 and every midpoint are integers.
VolScale(f) == IF f = "BS93VolImpl" THEN 10000 * 65536 ELSE 625 * 32768

\* epsilon = 0.001
EpsilonTenfold(f) == VolScale(f) \div 1000

\* epsilon = 0.0001
Epsilon(f) == VolScale(f) \div 10000

\* low = 0.0 (0.0001 in BS93VolImpl)
InitialLow(f) == IF f = "BS93VolImpl" THEN VolScale(f) \div 10000 ELSE 0

\* high = 4.0 (3.0 in BS93VolImpl)
InitialHigh(f) == IF f = "BS93VolImpl" THEN 3 * VolScale(f) ELSE 4 * VolScale(f)

\* (high + low) / 2, written so that the sum stays below 2^31.
Midpoint(hi, lo) == lo + (hi - lo) \div 2

\* The guards of BlackScholesVolImpl: the value returned, or NoValue to enter the loop.
BlackScholesVolImplGuards(a) ==
  LET tipo_subyacente == ToLowerCase(a.tipo)
  IN IF tipo_subyacente # "accion" /\ tipo_subyacente # "futuro" THEN NA
     ELSE IF a.prima <= 0 \/ a.T <= 0 THEN Number(0)
     ELSE NoValue

\* The guards of the BlackScholesVolImpl that sits beside the erf-based BlackScholes.
BlackScholesVolImplErfGuards(a) ==
  IF ToLowerCase(a.CallPut) = "futuro" THEN NA
  ELSE IF a.prima <= 0 \/ a.T <= 0 THEN Number(0)
  ELSE NoValue

\* The guards of BinomialVolImpl.
BinomialVolImplGuards(a) ==
  IF ToLowerCase(a.CallPut) = "futuro" THEN NA
  ELSE IF a.prima <= 0 \/ a.T <= 0 \/ a.nh <= 0 THEN Number(0)
  ELSE IF ToLowerCase(a.tipo) = "futuro"
          /\ NormEstilo(a.estilo) \notin {"futures_style", "equity_style", "matba_rofex_style"}
       THEN Thrown(ErrEstiloBinomial)
       ELSE NoValue

\* The guards of BS93VolImpl.
BS93VolImplGuards(a) ==
  LET tipo_subyacente == ToLowerCase(a.tipo)
  IN IF tipo_subyacente # "accion" /\ tipo_subyacente # "futuro" THEN NA
     ELSE IF a.prima <= 0 \/ a.T <= 0 THEN Number(0)
     ELSE NoValue

\* val: the "prima" call a solver makes at volatility mid.
PriceAt(f, a, mid) ==
  CASE f = "BinomialVolImpl" ->
         BinomialOpVal("prima", a.s, a.k, a.T, a.r, a.q, mid, ToLowerCase(a.CallPut),
                       ToLowerCase(a.EuroAmer), a.nh, ToLowerCase(a.tipo),
                       NormEstilo(a.estilo))
    [] f = "BS93VolImpl" ->
         BS93Amer("prima", a.s, a.k, a.T, a.r, a.q, mid, ToLowerCase(a.CallPut),
                  ToLowerCase(a.tipo))
    [] OTHER ->
         BlackScholes("prima", a.s, a.k, a.T, a.r, a.q, mid, ToLowerCase(a.CallPut),
                      ToLowerCase(a.tipo), NormEstilo(a.estilo))

\* The outcomes val > prima can have.  An exact number is compared; a string or an
\* object compares false; a formula's value is what the oracle says of it: "low" (the
\* premium is above every model price), "high" (below every model price), "nan" (not
\* a number, every comparison false), "free" (any value at any volatility).
Greater(val, prima, o) ==
  CASE val.kind = "number" -> {val.val > prima}
    [] val.kind \in {"sentinel", "object"} -> {FALSE}
    [] o = "high" -> {TRUE}
    [] o = "free" -> BOOLEAN
    [] OTHER -> {FALSE}

\* The oracles that give the model price as a non-decreasing table of the volatility:
\* "strict" is strictly increasing, "exercise" is flat at the immediate-exercise value up
\* to ExerciseEnd and strictly increasing above it.
TableOracles == {"strict", "exercise"}

\* The volatility below which S >= I, so that BS93AmericanCall returns S - X (0.2192 for
\* the call s = 120, k = 100, T = 0.5, r = 0.05, q = 0.10).
ExerciseEnd(f) == 2192 * Epsilon(f)

\* The model price at volatility sigma under table o, in the units of the volatility.
TablePrice(f, o, sigma) ==
  IF o = "exercise" THEN Max(sigma, ExerciseEnd(f)) ELSE sigma

\* val >= prima: the tie counted as a price above the premium.
TableGreaterOrEqual(f, o, mid, prima) == TablePrice(f, o, mid) >= prima

\* val > prima when val is the model price of table o at volatility mid.
TableGreater(f, o, mid, prima) == TablePrice(f, o, mid) > prima

----------------------------------------------------------------------------
\* The calls.

Parametros == {"prima", "delta", "gamma", "gammap", "theta", "vega", "rho", "foo", "constructor"}
Strike == 100 * Scale
Spots == {90 * Scale, 100 * Scale, 110 * Scale}
Times == {-TYear, 0, MicroYear, TYear}
Rates == 0..MaxRate
Yields == 0..MaxYield
Sigma0 == 20
\* sigma = 1.0, and the yield q = sigma^2 / 2 = 0.5 that makes d1 = 0 at s = k, r = 0.
UnitSigma == 100
HalfVariance == 50
OptionKinds == {"call", "PUT", "straddle"}
Tipos == {"accion", "Futuro", "otro"}
Estilos == {Missing, "futures_style", "Equity_Style", "matba_rofex_style", "otro_style"}
EuroAmers == {"europea", "Americana"}
\* n in halves: -1, 0, 1/2, 1, MaxSteps - 1/2, and 2..MaxSteps.
StepHalves == {-2, 0, 1, 2, 2 * MaxSteps - 1} \cup {2 * m : m \in 2..MaxSteps}
Premiums == {0, 5 * Scale}

NoArgs ==
  [parametro |-> "", s |-> 0, k |-> 0, T |-> 0, r |-> 0, q |-> 0, sigma |-> 0, prima |-> 0,
   CallPut |-> "", EuroAmer |-> "", nh |-> 0, tipo |-> "", estilo |-> ""]

\* The arguments of the solver calls.
SolverArgs ==
  {[NoArgs EXCEPT !.s = Strike, !.k = Strike, !.T = T, !.r = MaxRate, !.q = MaxYield,
                  !.prima = prima, !.CallPut = cp, !.tipo = tipo, !.estilo = estilo]
     : T \in {0, TYear}, prima \in Premiums, cp \in OptionKinds \cup {"futuro"},
       tipo \in Tipos, estilo \in Estilos}

\* One valid contract, for the runs that leave the model price free.
FreeArgs ==
  {[NoArgs EXCEPT !.s = Strike, !.k = Strike, !.T = TYear, !.r = MaxRate, !.q = MaxYield,
                  !.prima = 5 * Scale, !.CallPut = "call", !.tipo = "accion"]}

TabledOracles == {"low", "high", "nan"}
FreeOracles == {"free"}

Solvers == {"BlackScholesVolImpl", "BlackScholesVolImplErf", "BinomialVolImpl", "BS93VolImpl"}

Init ==
  /\ pc = "idle"
  /\ fn = ""
  /\ args = NoArgs
  /\ oracle = ""
  /\ high = 0
  /\ low = 0
  /\ counter = 0
  /\ evals = 0
  /\ result = NoValue
  /\ OptionValue = <<>>
  /\ loopJ = 0
  /\ loopI = 0

\* A pricing call: it returns (or throws) at once.
Returns(f, a, v) ==
  /\ pc' = "done"
  /\ fn' = f
  /\ args' = a
  /\ result' = v
  /\ UNCHANGED <<oracle, high, low, counter, evals, OptionValue, loopJ, loopI>>

CallBlackScholes ==
  /\ pc = "idle"
  /\ \E parametro \in Parametros, s \in Spots, T \in Times, r \in Rates,
        q \in Yields \cup {HalfVariance}, sigma \in {Sigma0, UnitSigma},
        CallPut \in OptionKinds, tipo \in Tipos, estilo \in Estilos :
       Returns("BlackScholes",
               [NoArgs EXCEPT !.parametro = parametro, !.s = s, !.k = Strike, !.T = T, !.r = r,
                              !.q = q, !.sigma = sigma, !.CallPut = CallPut, !.tipo = tipo,
                              !.estilo = estilo],
               BlackScholes(parametro, s, Strike, T, r, q, sigma, CallPut, tipo, estilo))

CallBinomialOpVal ==
  /\ pc = "idle"
  /\ \E parametro \in Parametros, s \in Spots, T \in Times, r \in Rates, q \in Yields,
        CallPut \in OptionKinds, EuroAmer \in EuroAmers, nh \in StepHalves, tipo \in Tipos,
        estilo \in Estilos :
       Returns("BinomialOpVal",
               [NoArgs EXCEPT !.parametro = parametro, !.s = s, !.k = Strike, !.T = T, !.r = r,
                              !.q = q, !.sigma = Sigma0, !.CallPut = CallPut,
                              !.EuroAmer = EuroAmer, !.nh = nh, !.tipo = tipo, !.estilo = estilo],
               BinomialOpVal(parametro, s, Strike, T, r, q, Sigma0, CallPut, EuroAmer, nh, tipo,
                             estilo))

CallBS93Amer ==
  /\ pc = "idle"
  /\ \E parametro \in Parametros, s \in Spots, T \in Times, r \in Rates, q \in Yields,
        CallPut \in OptionKinds, tipo \in Tipos :
       Returns("BS93Amer",
               [NoArgs EXCEPT !.parametro = parametro, !.s = s, !.k = Strike, !.T = T, !.r = r,
                              !.q = q, !.sigma = Sigma0, !.CallPut = CallPut, !.tipo = tipo],
               BS93Amer(parametro, s, Strike, T, r, q, Sigma0, CallPut, tipo))

CallBS93Amer1993 ==
  /\ pc = "idle"
  /\ \E parametro \in Parametros, s \in Spots, T \in Times, r \in Rates, q \in Yields,
        CallPut \in OptionKinds, tipo \in Tipos :
       Returns("BS93Amer1993",
               [NoArgs EXCEPT !.parametro = parametro, !.s = s, !.k = Strike, !.T = T, !.r = r,
                              !.q = q, !.sigma = Sigma0, !.CallPut = CallPut, !.tipo = tipo],
               BS93Amer1993(parametro, s, Strike, T, r, q, Sigma0, CallPut, tipo))

\* A solver call up to its loop: the guards return, or the loop starts.
Solve(f, a, o, guards) ==
  /\ fn' = f
  /\ args' = a
  /\ oracle' = o
  /\ counter' = 0
  /\ evals' = 0
  /\ UNCHANGED <<OptionValue, loopJ, loopI>>
  /\ IF guards = NoValue
     THEN /\ pc' = "loop"
          /\ high' = InitialHigh(f)
          /\ low' = InitialLow(f)
          /\ result' = NoValue
     ELSE /\ pc' = "done"
          /\ result' = guards
          /\ UNCHANGED <<high, low>>

CallBlackScholesVolImpl(A, O) ==
  /\ pc = "idle"
  /\ \E a \in A, o \in O : Solve("BlackScholesVolImpl", a, o, BlackScholesVolImplGuards(a))

CallBlackScholesVolImplErf(A, O) ==
  /\ pc = "idle"
  /\ \E a \in A, o \in O : Solve("BlackScholesVolImplErf", a, o, BlackScholesVolImplErfGuards(a))

CallBinomialVolImpl(A, O) ==
  /\ pc = "idle"
  /\ \E a \in A, o \in O, EuroAmer \in {"Americana"}, nh \in StepHalves :
       LET an == [a EXCEPT !.EuroAmer = EuroAmer, !.nh = nh]
       IN Solve("BinomialVolImpl", an, o, BinomialVolImplGuards(an))

CallBS93VolImpl(A, O) ==
  /\ pc = "idle"
  /\ \E a \in A, o \in O : Solve("BS93VolImpl", a, o, BS93VolImplGuards(a))

\* The loop test and one iteration of the while loop, or the return after it.
Iterate ==
  /\ pc = "loop"
  /\ UNCHANGED <<fn, args, oracle, OptionValue, loopJ, loopI>>
  /\ IF high - low > Epsilon(fn)
     THEN /\ counter' = counter + 1
          /\ IF counter + 1 > MaxIterations
             THEN /\ pc' = "done"
                  /\ result' = NA
                  /\ UNCHANGED <<high, low, evals>>
             ELSE LET mid == Midpoint(high, low)
                      val == PriceAt(fn, args, mid)
                  IN /\ evals' = evals + 1
                     /\ IF val.kind = "error"
                        THEN /\ pc' = "done"
                             /\ result' = val
                             /\ UNCHANGED <<high, low>>
                        ELSE /\ \E gt \in IF oracle \in TableOracles /\ val.kind = "formula"
                                        THEN {TableGreater(fn, oracle, mid, args.prima)}
                                        ELSE Greater(val, args.prima, oracle) :
                                  /\ high' = IF gt THEN mid ELSE high
                                  /\ low' = IF gt THEN low ELSE mid
                             /\ UNCHANGED <<pc, result>>
     ELSE /\ pc' = "done"
          /\ result' = Number(Midpoint(high, low))
          /\ UNCHANGED <<high, low, counter, evals>>

\* Return with the bracket of the solver kept in variables that outlive the call.
ReturnKeepsBracket ==
  /\ pc = "done"
  /\ pc' = "idle"
  /\ fn' = ""
  /\ args' = NoArgs
  /\ oracle' = ""
  /\ counter' = 0
  /\ evals' = 0
  /\ result' = NoValue
  /\ OptionValue' = <<>>
  /\ loopJ' = 0
  /\ loopI' = 0
  /\ UNCHANGED <<high, low>>

\* Nothing outlives a call.
Return ==
  /\ pc = "done"
  /\ pc' = "idle"
  /\ fn' = ""
  /\ args' = NoArgs
  /\ oracle' = ""
  /\ high' = 0
  /\ low' = 0
  /\ counter' = 0
  /\ evals' = 0
  /\ result' = NoValue
  /\ OptionValue' = <<>>
  /\ loopJ' = 0
  /\ loopI' = 0

Next ==
  \/ CallBlackScholes
  \/ CallBinomialOpVal
  \/ CallBS93Amer
  \/ CallBS93Amer1993
  \/ CallBlackScholesVolImpl(SolverArgs, TabledOracles)
  \/ CallBlackScholesVolImplErf(SolverArgs, TabledOracles)
  \/ CallBinomialVolImpl(SolverArgs, TabledOracles)
  \/ CallBS93VolImpl(SolverArgs, TabledOracles)
  \/ Iterate
  \/ Return

Spec == Init /\ [][Next]_vars

\* The solvers alone, on one valid contract, with the model price left free.
NextFree ==
  \/ CallBlackScholesVolImpl(FreeArgs, FreeOracles)
  \/ CallBlackScholesVolImplErf(FreeArgs, FreeOracles)
  \/ CallBinomialVolImpl(FreeArgs, FreeOracles)
  \/ CallBS93VolImpl(FreeArgs, FreeOracles)
  \/ Iterate
  \/ Return

SpecFree == Init /\ [][NextFree]_vars

\* The volatilities the premium is priced at, in quarters of epsilon: 0.000025, 0.0001,
\* 0.1, 0.2192, 0.25, 1, 2.9999.
RoundTripGrid == {1, 4, 4000, 8768, 10000, 40000, 119996}

\* The guards of solver f.
GuardsOf(f, a) ==
  CASE f = "BlackScholesVolImpl" -> BlackScholesVolImplGuards(a)
    [] f = "BlackScholesVolImplErf" -> BlackScholesVolImplErfGuards(a)
    [] f = "BinomialVolImpl" -> BinomialVolImplGuards(a)
    [] OTHER -> BS93VolImplGuards(a)

\* The round trip: the model's own price at sigma0 is passed to the model's solver as the
\* observed premium.  args.sigma records sigma0, which is no argument of the solver.
RoundTrip ==
  /\ pc = "idle"
  /\ \E f \in Solvers, o \in TableOracles, g \in RoundTripGrid, a \in FreeArgs :
       LET sigma0 == g * (Epsilon(f) \div 4)
           an == [a EXCEPT !.sigma = sigma0, !.prima = TablePrice(f, o, sigma0),
                           !.EuroAmer = IF f = "BinomialVolImpl" THEN "Americana" ELSE "",
                           !.nh = IF f = "BinomialVolImpl" THEN 2 * MaxSteps ELSE 0]
       IN Solve(f, an, o, GuardsOf(f, an))

\* The round trips alone.
NextTable ==
  \/ RoundTrip
  \/ Iterate
  \/ Return

SpecTable == Init /\ [][NextTable]_vars

\* BinomialOpVal("prima", ...) with T > 0 and valid arguments, up to the backward loop:
\* the array is allocated and filled with the terminal payoffs.
BuildLattice ==
  /\ pc = "idle"
  /\ \E s \in Spots, r \in Rates, q \in Yields, CallPut \in {"call", "PUT"},
        EuroAmer \in EuroAmers, n \in 2..MaxSteps, tipo \in {"accion", "Futuro"},
        estilo \in Estilos :
       LET a == [NoArgs EXCEPT !.parametro = "prima", !.s = s, !.k = Strike, !.T = TYear,
                               !.r = r, !.q = q, !.sigma = Sigma0, !.CallPut = CallPut,
                               !.EuroAmer = EuroAmer, !.nh = 2 * n, !.tipo = tipo,
                               !.estilo = estilo]
       IN /\ BinomialCarry(r, q, ToLowerCase(tipo), NormEstilo(estilo)).err = ""
          /\ pc' = "lattice"
          /\ fn' = "BinomialOpVal"
          /\ args' = a
          /\ OptionValue' = TerminalValues(a)
          /\ loopJ' = n - 1
          /\ loopI' = 0
          /\ UNCHANGED <<oracle, high, low, counter, evals, result>>

\* One iteration of the inner loop, the loop tests after it, and the return of Prima
\* after level 0.  loopI counts the iterations made at level loopJ.
BackwardStep ==
  /\ pc = "lattice"
  /\ OptionValue' = NodeStep(args, OptionValue, loopJ, LoopIndex(loopJ, loopI))
  /\ UNCHANGED <<fn, args, oracle, high, low, counter, evals>>
  /\ IF loopI < loopJ
     THEN /\ loopI' = loopI + 1
          /\ UNCHANGED <<pc, loopJ, result>>
     ELSE IF loopJ > 0
          THEN /\ loopJ' = loopJ - 1
               /\ loopI' = 0
               /\ UNCHANGED <<pc, result>>
          ELSE /\ pc' = "done"
               /\ loopI' = loopI + 1
               /\ result' = Number(OptionValue'[0])
               /\ UNCHANGED loopJ

\* The backward induction alone.
NextLattice ==
  \/ BuildLattice
  \/ BackwardStep
  \/ Return

SpecLattice == Init /\ [][NextLattice]_vars

----------------------------------------------------------------------------
\* The claims.

PricingFunctions == {"BlackScholes", "BinomialOpVal", "BS93Amer"}

\* The underlying kind and the settlement style of the call, as the code normalises them.
TipoOf(a) == ToLowerCase(a.tipo)
EstiloOf(a) == NormEstilo(a.estilo)

\* The settlement styles function f accepts for a future (BS93 takes no style).
AcceptedStyles(f) ==
  IF f \in {"BinomialOpVal", "BinomialVolImpl"}
  THEN {"futures_style", "equity_style", "matba_rofex_style"}
  ELSE {"futures_style", "equity_style"}

\* The underlying/settlement combination of the call is one f accepts.
ValidCombination(f, a) ==
  \/ TipoOf(a) = "accion"
  \/ /\ TipoOf(a) = "futuro"
     /\ f \in {"BS93Amer", "BS93VolImpl"} \/ EstiloOf(a) \in AcceptedStyles(f)

\* steps is an integer > 1 (n in halves).
ValidSteps(a) == a.nh % 2 = 0 /\ a.nh \div 2 > 1

\* C1: when the premium is above the model price at every volatility (every midpoint
\* evaluation yields price <= premium), the solver returns "NA" within 100 iterations.
C1_UnattainablePremiumReturnsNA ==
  (pc = "done" /\ fn \in Solvers /\ oracle = "low" /\ evals > 0 /\ result.kind # "error")
    => (result = NA /\ counter <= MaxIterations)

\* C2: the bisection loop terminates whatever the pricing function returns: the bracket
\* halves at every evaluation, there are at most 100 evaluations, and a number returned
\* is the midpoint of a bracket no wider than 0.0001, reached after exactly 16 halvings
\* from [0, 4] and 15 from [0.0001, 3].
C2_BisectionTerminates ==
  LET halvings == IF fn = "BS93VolImpl" THEN 15 ELSE 16
      one == VolScale(fn)
      width0 == IF fn = "BS93VolImpl" THEN 3 * one - one \div 10000 ELSE 4 * one
  IN /\ evals <= 100
     /\ pc = "loop" =>
          /\ counter = evals
          /\ counter <= halvings
          /\ (high - low) * 2 ^ counter = width0
          /\ ENABLED Iterate
     /\ (pc = "done" /\ fn \in Solvers /\ evals > 0 /\ result.kind = "number") =>
          /\ result.val - low = high - result.val
          /\ high - low <= one \div 10000
          /\ (high - low) * 2 ^ halvings = width0
          /\ evals = halvings

\* C2 witness: a solve that moved both bounds and returned a number after 15 halvings.
C2_Witness ==
  /\ pc = "done"
  /\ fn = "BS93VolImpl"
  /\ oracle = "free"
  /\ result.kind = "number"
  /\ evals = 15
  /\ low > InitialLow(fn)
  /\ high < InitialHigh(fn)

\* C3: an implied-volatility function called with premium > 0, T > 0 and an invalid
\* underlying/settlement combination returns "NA" and raises no exception.
C3_InvalidCombinationReturnsNA ==
  (pc = "done" /\ fn \in Solvers /\ args.prima > 0 /\ args.T > 0
     /\ ~ValidCombination(IF fn = "BlackScholesVolImplErf" THEN "BlackScholesVolImpl" ELSE fn,
                          args))
    => result = NA

\* C4: an option kind other than call or put makes BlackScholes, BinomialOpVal and
\* BS93Amer fail with the invalid-option-kind error, whatever the requested parameter
\* (the other arguments being valid).
C4_InvalidOptionKindFails ==
  (pc = "done" /\ fn \in PricingFunctions /\ ToLowerCase(args.CallPut) \notin {"call", "put"}
     /\ ValidCombination(fn, args) /\ (fn = "BinomialOpVal" => ValidSteps(args)))
    => (result.kind = "error" /\ result.msg = ErrCallPut)

\* C5: BinomialOpVal with steps <= 1 or a non-integer steps fails with the
\* invalid-step-count error whatever the other arguments are, and allocates no array.
C5_InvalidStepCountFailsFirst ==
  (pc = "done" /\ fn = "BinomialOpVal" /\ (args.nh % 2 # 0 \/ args.nh <= 2))
    => (result.kind = "error" /\ result.msg = ErrPasos /\ result.arr = 0)

\* C5 witness: steps = MaxSteps - 1/2 with T <= 0 and an invalid underlying kind.
C5_Witness ==
  /\ pc = "done"
  /\ fn = "BinomialOpVal"
  /\ args.nh = 2 * MaxSteps - 1
  /\ args.T <= 0
  /\ TipoOf(args) = "otro"
  /\ result.msg = ErrPasos

\* The carry and the effective rate of the table, for input rates r and q.
C6_Table(f, a, r, q) ==
  IF TipoOf(a) = "accion" THEN [b |-> r - q, r |-> r]
  ELSE IF f = "BS93Amer" THEN [b |-> 0, r |-> r]
  ELSE IF EstiloOf(a) = "futures_style" THEN [b |-> 0, r |-> 0]
  ELSE [b |-> 0, r |-> r]

\* C6: every formula BlackScholes, BinomialOpVal and BS93Amer evaluate uses the carry b
\* and the effective rate of the table: equity (r - q, r); future + futures_style (0, 0);
\* future + equity_style (0, r); future + matba_rofex_style (lattice only) (0, r);
\* BS93Amer (r - q, r) for equity and (0, r) for future.  A rho bump of the lattice or
\* of BS93Amer applies the table to the bumped rate r +/- 0.01.
C6_CarryTable ==
  (pc = "done" /\ fn \in PricingFunctions /\ result.kind = "formula") =>
    /\ Len(result.calls) >= 1
    /\ \A i \in 1..Len(result.calls) :
         LET bump == IF result.msg = "rho" /\ fn # "BlackScholes"
                     THEN (IF i = 1 THEN 1 ELSE -1) ELSE 0
             row == C6_Table(fn, args, args.r + bump, args.q)
         IN result.calls[i].b = row.b /\ result.calls[i].r = row.r

\* C6 witness: lattice prices of a future with r > 0, one futures_style, one matba_rofex_style.
C6_Witness ==
  /\ pc = "done"
  /\ fn = "BinomialOpVal"
  /\ TipoOf(args) = "futuro"
  /\ args.r > 0
  /\ result.kind = "formula"
  /\ \/ EstiloOf(args) = "matba_rofex_style" /\ result.calls[1].r = args.r
     \/ EstiloOf(args) = "futures_style" /\ result.calls[1].r = 0

C7_PastEarlyReturns ==
  fn = "BinomialVolImpl" =>
    ToLowerCase(args.CallPut) # "futuro" /\ args.prima > 0 /\ args.T > 0 /\ args.nh > 0

C8_Supported(f) ==
  IF f = "BlackScholes" THEN {"prima", "delta", "gamma", "gammap", "theta", "vega", "rho"}
  ELSE {"prima", "delta", "gamma", "theta", "vega", "rho"}

\* C8: for every valid contract and any T, a selector outside the model's supported set
\* returns the invalid-selector sentinel and never a number.
C8_UnknownSelectorReturnsSentinel ==
  (pc = "done" /\ fn \in PricingFunctions /\ ValidCombination(fn, args)
     /\ ToLowerCase(args.CallPut) \in {"call", "put"}
     /\ (fn = "BinomialOpVal" => ValidSteps(args))
     /\ args.parametro \notin C8_Supported(fn))
    => (result.kind = "sentinel"
        /\ result.msg = (IF fn = "BinomialOpVal" THEN ParametroNoReconocido
                         ELSE ParametroInvalido))

\* C9: BlackScholes with T <= 0 and a valid underlying/settlement combination returns,
\* without evaluating any formula: for prima the intrinsic payoff, for delta 1 if s > k
\* else 0 (call) and -1 if s < k else 0 (put), and 0 for gamma, gammap, theta, vega, rho.
C9_BlackScholesAtExpiry ==
  (pc = "done" /\ fn = "BlackScholes" /\ args.T <= 0 /\ ValidCombination(fn, args)
     /\ ToLowerCase(args.CallPut) \in {"call", "put"})
    => LET call == ToLowerCase(args.CallPut) = "call"
           s == args.s
           k == args.k
       IN /\ result.kind = "number"
          /\ result.calls = <<>>
          /\ args.parametro = "prima" =>
               result.val = (IF call THEN (IF s > k THEN s - k ELSE 0)
                                     ELSE (IF k > s THEN k - s ELSE 0))
          /\ args.parametro = "delta" =>
               result.val = (IF call THEN (IF s > k THEN 1 ELSE 0)
                                     ELSE (IF s < k THEN -1 ELSE 0))
          /\ args.parametro \in {"gamma", "gammap", "theta", "vega", "rho"} =>
               result.val = 0

\* C9 witness: the delta of an out-of-the-money call at expiry is 0.
C9_Witness ==
  /\ pc = "done"
  /\ fn = "BlackScholes"
  /\ args.T = 0
  /\ args.parametro = "delta"
  /\ ToLowerCase(args.CallPut) = "call"
  /\ args.s < args.k
  /\ result = Number(0)

\* C10: BinomialOpVal with T = 0, valid steps and underlying, for a call: prima = 10 and
\* delta = 1 at s = 110, k = 100; prima = 0 and delta = 0 at s = 90, k = 100; prima is
\* the intrinsic payoff, delta is 0 out of the money, and no lattice array is built.
C10_BinomialAtExpiry ==
  (pc = "done" /\ fn = "BinomialOpVal" /\ args.T = 0 /\ ValidSteps(args)
     /\ ValidCombination(fn, args) /\ ToLowerCase(args.CallPut) = "call")
    => /\ result.arr = 0
       /\ args.parametro = "prima" =>
            /\ result = Number(IF args.s > args.k THEN args.s - args.k ELSE 0)
            /\ (args.s = 110 * Scale /\ args.k = 100 * Scale) => result.val = 10 * Scale
            /\ (args.s = 90 * Scale /\ args.k = 100 * Scale) => result.val = 0
       /\ args.parametro = "delta" =>
            /\ (args.s = 110 * Scale /\ args.k = 100 * Scale) => result = Number(1)
            /\ args.s < args.k => result = Number(0)

\* The carry b BS93Amer gives the contract of the call.
BS93CarryOf(a) == IF TipoOf(a) = "accion" THEN a.r - a.q ELSE 0

\* BS93Amer("prima", ...) returned the value of one pricing formula.
C11_Priced ==
  /\ pc = "done"
  /\ fn = "BS93Amer"
  /\ ToLowerCase(args.parametro) = "prima"
  /\ result.kind = "formula"

\* C11 as stated: for every contract whose carry satisfies b >= r, for calls and for
\* puts, BS93Amer("prima", ...) returns the value of BS_EuropeanCall and computes no
\* trigger price.
C11_EuropeanBranchAsStated ==
  (C11_Priced /\ BS93CarryOf(args) >= args.r)
    => (Len(result.calls) = 1 /\ result.calls[1].form = "BS_EuropeanCall")

\* C11 amended: BS93Amer("prima", ...) returns the value of BS_EuropeanCall, and computes
\* no trigger price, exactly for a call with b >= r and for a put with r <= 0 (the put is
\* priced as the call (k, s, r - b, -b), whose test is -b >= r - b); a put with r > 0 is
\* priced by the trigger-price formula whatever its carry.
C11_EuropeanBranch ==
  C11_Priced =>
    /\ Len(result.calls) = 1
    /\ result.calls[1].form \in {"BS_EuropeanCall", "BS93"}
    /\ result.calls[1].form = "BS_EuropeanCall" <=>
         \/ ToLowerCase(args.CallPut) = "call" /\ BS93CarryOf(args) >= args.r
         \/ ToLowerCase(args.CallPut) = "put" /\ args.r <= 0

\* C11 witness: a call on an equity without yield at a positive rate (b = r) is priced
\* by the European closed form.
C11_Witness ==
  /\ C11_Priced
  /\ ToLowerCase(args.CallPut) = "call"
  /\ TipoOf(args) = "accion"
  /\ args.q = 0
  /\ args.r > 0
  /\ args.T > 0
  /\ result.calls[1].form = "BS_EuropeanCall"

\* |x - y|
C12_Distance(x, y) == IF x >= y THEN x - y ELSE y - x

\* C12: implied-volatility round trip: for each model and every sigma0 in (0, 3), the
\* solver given the model's own price at sigma0 returns a volatility within
\* epsilon = 0.0001 of sigma0, the model price being a non-decreasing table of the
\* volatility, flat segments such as an immediate-exercise value S - k included.
C12_RoundTrip ==
  (pc = "done" /\ oracle \in TableOracles)
    => /\ result.kind = "number"
       /\ C12_Distance(result.val, args.sigma) <= Epsilon(fn)

\* The value the pricing function f returns for the arguments a, whatever came before.
C13_ValueOf(f, a) ==
  CASE f = "BlackScholes" ->
         BlackScholes(a.parametro, a.s, a.k, a.T, a.r, a.q, a.sigma, a.CallPut, a.tipo, a.estilo)
    [] f = "BinomialOpVal" ->
         BinomialOpVal(a.parametro, a.s, a.k, a.T, a.r, a.q, a.sigma, a.CallPut, a.EuroAmer,
                       a.nh, a.tipo, a.estilo)
    [] OTHER -> BS93Amer(a.parametro, a.s, a.k, a.T, a.r, a.q, a.sigma, a.CallPut, a.tipo)

C14_Equals(n, x, c) ==
  IF n.approx = 0 THEN n.unit * One = c
  ELSE x = 0 /\ n.unit * One + n.approx * NZero = c

\* prima(call) - prima(put) = s * df_b - k * df_r for the contract a, the two primas
\* being the values BlackScholes computes at its evaluation points.
C14_Parity(a) ==
  LET call == BlackScholes("prima", a.s, a.k, a.T, a.r, a.q, a.sigma, "call", a.tipo, a.estilo)
      put == BlackScholes("prima", a.s, a.k, a.T, a.r, a.q, a.sigma, "put", a.tipo, a.estilo)
      at == call.calls[1]
      c == BSPrimaTerms(call.side, at)
      p == BSPrimaTerms(put.side, put.calls[1])
      spot == [unit |-> c.spot.unit - p.spot.unit, approx |-> c.spot.approx - p.spot.approx]
      strike == [unit |-> c.strike.unit - p.strike.unit,
                 approx |-> c.strike.approx - p.strike.approx]
  IN /\ call.kind = "formula" /\ put.kind = "formula"
     /\ call.calls = put.calls
     /\ C14_Equals(spot, D1(at.s, at.k, at.T, at.b, at.sigma), One)
     /\ C14_Equals(strike, D2(at.s, at.k, at.T, at.b, at.sigma), -One)

\* BlackScholes priced a call on an equity with T > 0.
C14_EquityCallPriced ==
  /\ pc = "done"
  /\ fn = "BlackScholes"
  /\ args.parametro = "prima"
  /\ ToLowerCase(args.CallPut) = "call"
  /\ TipoOf(args) = "accion"
  /\ args.T > 0

\* C14 as stated: put-call parity of BlackScholes under equity carry with T > 0:
\* prima(call) - prima(put) = s * df_b - k * df_r for identical s, k, T, r, q, sigma,
\* the cumulative normal satisfying N(x) + N(-x) = 1 for every x.
C14_PutCallParityAsStated ==
  C14_EquityCallPriced => C14_Parity(args)

\* C14 amended: the parity holds whenever d1 # 0 and d2 # 0, since N(x) + N(-x) = 1 for
\* every x # 0; at x = 0 both N(x) and N(-x) are the approximation 0.5000000005, so with
\* d1 = 0 the difference is s * df_b * 2 * N(0) - k * df_r.
C14_PutCallParity ==
  C14_EquityCallPriced =>
    LET b == args.r - args.q
        d1 == D1(args.s, args.k, args.T, b, args.sigma)
        d2 == D2(args.s, args.k, args.T, b, args.sigma)
    IN /\ (d1 # 0 /\ d2 # 0) => C14_Parity(args)
       /\ (d1 = 0 \/ d2 = 0) => ~C14_Parity(args)

\* C14 witness: an out-of-the-money call on an equity, d1 < 0, priced with T > 0.
C14_Witness ==
  /\ C14_EquityCallPriced
  /\ args.s < args.k
  /\ args.T = TYear
  /\ result.kind = "formula"
  /\ BSPrimaTerms(result.side, result.calls[1]).spot = [unit |-> 0, approx |-> 1]
  /\ BSPrimaTerms("put", result.calls[1]).spot = [unit |-> -1, approx |-> 1]

\* C15: BinomialVolImpl never silently accepts an invalid step count: for every steps
\* value that is <= 1 or not an integer, and every value of the other arguments, the
\* call fails with the invalid-step-count error and never returns a number.
C15_InvalidStepCountNeverAccepted ==
  (pc = "done" /\ fn = "BinomialVolImpl" /\ BadSteps(args.nh))
    => result = Thrown(ErrPasos)

\* BinomialOpVal read a Greek off the tree of a valid contract with T > 0.
C16_ReadOffTree ==
  /\ pc = "done"
  /\ fn = "BinomialOpVal"
  /\ args.T > 0
  /\ ValidSteps(args)
  /\ ValidCombination(fn, args)

\* C16: for every valid step count (every integer steps > 1, steps = 2 included) and
\* T > 0, BinomialOpVal computes gamma from the three option values at tree level 2,
\* theta as (C21 - C00) / (2 * dt) with C21 the middle option value at level 2 and C00
\* the root value, and delta from the two option values at level 1.
C16_GreeksFromTreeLevels ==
  C16_ReadOffTree =>
    /\ args.parametro = "gamma" =>
         (result.kind = "formula" /\ result.nodes = <<Node(2, 2), Node(2, 1), Node(2, 0)>>)
    /\ args.parametro = "theta" =>
         (result.kind = "formula" /\ result.nodes = <<Node(2, 1), Node(0, 0)>>)
    /\ args.parametro = "delta" =>
         (result.kind = "formula" /\ result.nodes = <<Node(1, 1), Node(1, 0)>>)

\* The two versions of BS93Amer.
BS93Versions == {"BS93Amer", "BS93Amer1993"}

\* BS93Amer computed theta for T > 0.
C17_ThetaComputed ==
  /\ pc = "done"
  /\ fn \in BS93Versions
  /\ ToLowerCase(args.parametro) = "theta"
  /\ args.T > 0
  /\ result.kind = "formula"

\* C17: for every T > 0, the time bump hT used by BS93Amer for theta is at most T / 2,
\* so both evaluation times T - hT and T + hT are strictly positive.
C17_ThetaBumpAtMostHalfT ==
  C17_ThetaComputed =>
    /\ Len(result.calls) = 2
    /\ 2 * (args.T - result.calls[1].T) <= args.T
    /\ result.calls[1].T > 0
    /\ result.calls[2].T > 0

\* The payoff at expiry of the contract a.
C18_Intrinsic(a) ==
  IF ToLowerCase(a.CallPut) = "call" THEN Max(a.s - a.k, 0) ELSE Max(a.k - a.s, 0)

\* C18: every pricing operation handles T <= 0 through an explicit degenerate branch:
\* BlackScholes, BinomialOpVal and BS93Amer called with T <= 0 and otherwise valid
\* arguments return the intrinsic payoff for prima and a defined number for the Greeks,
\* without evaluating any formula that divides by sigma * sqrt(T).
C18_DegenerateBranchEverywhere ==
  (pc = "done" /\ fn \in PricingFunctions \cup BS93Versions /\ args.T <= 0
     /\ ValidCombination(fn, args)
     /\ (fn = "BinomialOpVal" => ValidSteps(args))
     /\ ToLowerCase(args.CallPut) \in {"call", "put"}
     /\ args.parametro \in {"prima", "delta", "gamma", "theta", "vega", "rho"})
    => /\ result.kind = "number"
       /\ result.calls = <<>>
       /\ args.parametro = "prima" => result.val = C18_Intrinsic(args)

\* C19: BS93Amer rho evaluates the pricing function at the rates r + 0.01 and r - 0.01
\* with the carry recomputed for each bumped rate: b = (r +/- 0.01) - q for an equity,
\* b = 0 for a future.
C19_RhoRecomputesCarry ==
  (pc = "done" /\ fn \in BS93Versions /\ ToLowerCase(args.parametro) = "rho"
     /\ result.kind = "formula")
    => /\ Len(result.calls) = 2
       /\ \A i \in 1..2 :
            LET rLocal == args.r + (IF i = 1 THEN 1 ELSE -1)
            IN /\ result.calls[i].r = rLocal
               /\ result.calls[i].b = (IF TipoOf(args) = "accion" THEN rLocal - args.q ELSE 0)
               /\ result.calls[i].s = args.s /\ result.calls[i].k = args.k
               /\ result.calls[i].T = args.T /\ result.calls[i].sigma = args.sigma

\* C20: for a future with settlement style futures_style every output of BlackScholes
\* and of BinomialOpVal is independent of the input rate r (it is the output for r = 0),
\* and rho is exactly 0 in both models.
C20_FuturesStyleIgnoresRate ==
  (pc = "done" /\ fn \in {"BlackScholes", "BinomialOpVal"} /\ TipoOf(args) = "futuro"
     /\ EstiloOf(args) = "futures_style")
    => /\ result = C13_ValueOf(fn, [args EXCEPT !.r = 0])
       /\ \A i \in 1..Len(result.calls) : result.calls[i].r = 0
       /\ (ToLowerCase(args.parametro) = "rho" /\ result.kind # "error"
            /\ (fn = "BinomialOpVal" => args.parametro = "rho"))
            => result.kind = "number" /\ result.val = 0

\* C20 witness: the lattice rho of a futures_style future at a positive rate, T > 0: a
\* tree was built and the two bumped re-evaluations cancel.
C20_Witness ==
  /\ pc = "done"
  /\ fn = "BinomialOpVal"
  /\ args.parametro = "rho"
  /\ TipoOf(args) = "futuro"
  /\ EstiloOf(args) = "futures_style"
  /\ args.r > 0
  /\ args.T > 0
  /\ result.kind = "number"
  /\ result.val = 0
  /\ result.arr = args.nh \div 2 + 1

\* The arguments a with the settlement style left out.
C21_WithoutStyle(a) == [a EXCEPT !.estilo = Missing]

\* C21: for an equity the settlement style is ignored: BlackScholes, BinomialOpVal and
\* their implied-volatility solvers do the same for every value of the style (missing,
\* unrecognized, futures_style, equity_style, matba_rofex_style) as for a missing one:
\* same result, same guards and same model price at every midpoint, no style error, no
\* override of r and no daily accrual in the lattice.
C21_EquityIgnoresStyle ==
  /\ (pc = "done" /\ fn \in {"BlackScholes", "BinomialOpVal"} /\ TipoOf(args) = "accion")
       => /\ result = C13_ValueOf(fn, C21_WithoutStyle(args))
          /\ result.msg \notin {ErrEstiloBS, ErrEstiloBinomial}
          /\ \A i \in 1..Len(result.calls) :
               /\ result.calls[i].form \in {"BlackScholes", "lattice"}
               /\ result.calls[i].r =
                    args.r + (IF result.msg = "rho" /\ fn = "BinomialOpVal"
                              THEN (IF i = 1 THEN 1 ELSE -1) ELSE 0)
  /\ (pc # "idle" /\ fn \in {"BlackScholesVolImpl", "BlackScholesVolImplErf", "BinomialVolImpl"}
        /\ TipoOf(args) = "accion")
       => /\ GuardsOf(fn, args) = GuardsOf(fn, C21_WithoutStyle(args))
          /\ result.msg \notin {ErrEstiloBS, ErrEstiloBinomial}
          /\ pc = "loop" =>
               PriceAt(fn, args, Midpoint(high, low))
                 = PriceAt(fn, C21_WithoutStyle(args), Midpoint(high, low))

\* C21 witness: the lattice price of an equity given as matba_rofex_style, T > 0, at a
\* positive rate: no accrual, r kept.
C21_Witness ==
  /\ pc = "done"
  /\ fn = "BinomialOpVal"
  /\ TipoOf(args) = "accion"
  /\ EstiloOf(args) = "matba_rofex_style"
  /\ args.parametro = "prima"
  /\ args.T > 0
  /\ args.r > 0
  /\ result.kind = "formula"
  /\ result.calls[1].form = "lattice"
  /\ result.calls[1].r = args.r

\* BinomialOpVal returned from a vega or rho request with valid arguments.
C22_BumpRequest ==
  /\ pc = "done"
  /\ fn = "BinomialOpVal"
  /\ args.parametro \in {"vega", "rho"}
  /\ ValidSteps(args)
  /\ ValidCombination(fn, args)

\* The request re-invoked BinomialOpVal exactly twice, with selector "prima" and
\* sigma +/- 0.01 (vega) or r +/- 0.01 (rho, r being the rate after the style override),
\* the nested calls re-invoked nothing, and the result is (up - down) / 2.
C22_DepthOne ==
  LET r == BinomialCarry(args.r, args.q, TipoOf(args), EstiloOf(args)).r
  IN /\ result.depth = 1
     /\ Len(result.nested) = 2
     /\ \A i \in 1..2 :
          LET bump == IF i = 1 THEN 1 ELSE -1
          IN result.nested[i] =
               IF args.parametro = "vega" THEN NestedCall("prima", args.sigma + bump, r)
                                          ELSE NestedCall("prima", args.sigma, r + bump)
     /\ result.kind \in {"formula", "number"}
     /\ result.kind = "number" => result.val = 0
     /\ result.kind = "formula" =>
          /\ Len(result.calls) = 2
          /\ \A i \in 1..2 : result.calls[i].sigma = result.nested[i].sigma
          /\ result.calls[1] # result.calls[2]

\* Every model price a lattice solve asks for is a "prima" that re-invokes nothing.
C22_SolveAsksPrima ==
  (pc = "loop" /\ fn = "BinomialVolImpl") =>
    LET val == PriceAt(fn, args, Midpoint(high, low))
    IN /\ val.depth = 0
       /\ val.nested = <<>>
       /\ val.kind = "formula" => val.msg = "prima"

\* C22 as stated: a vega or rho request to BinomialOpVal terminates with recursion depth
\* exactly 1: it re-invokes BinomialOpVal exactly twice, each time with selector "prima",
\* the nested calls make no further recursive call, and the result is (up - down) / 2;
\* BinomialVolImpl only ever invokes BinomialOpVal with selector "prima".
C22_BumpRecursionAsStated ==
  /\ C22_BumpRequest => C22_DepthOne
  /\ C22_SolveAsksPrima

\* C22 amended: the same for a vega or rho request with T > 0; with T <= 0 the request
\* returns 0 from the degenerate branch and re-invokes nothing (depth 0).
C22_BumpRecursion ==
  /\ (C22_BumpRequest /\ args.T > 0) => C22_DepthOne
  /\ (C22_BumpRequest /\ args.T <= 0) =>
       (result = Number(0) /\ result.depth = 0 /\ result.nested = <<>>)
  /\ C22_SolveAsksPrima

\* C22 witness: a vega request on an equity with T > 0 made its two nested calls.
C22_Witness ==
  /\ C22_BumpRequest
  /\ args.parametro = "vega"
  /\ args.T > 0
  /\ result.kind = "formula"
  /\ result.depth = 1
  /\ Len(result.nested) = 2

\* One iteration of a solver loop that stays in the loop: with mid the midpoint of the
\* bracket, high := mid when the model price at mid is strictly above the premium,
\* otherwise (the tie included) low := mid; exactly one bound changes, low does not
\* decrease, high does not increase, and the width halves.
C23_Iteration ==
  (pc = "loop" /\ pc' = "loop") =>
    LET mid == Midpoint(high, low)
        above == TablePrice(fn, oracle, mid) > args.prima
    IN /\ above => (high' = mid /\ low' = low)
       /\ ~above => (low' = mid /\ high' = high)
       /\ (high' # high) # (low' # low)
       /\ low' >= low
       /\ high' <= high
       /\ 2 * (high' - low') = high - low
       /\ low' <= high'

\* The bracket inside a solver loop, and the number the loop returns.
C23_Bracket ==
  /\ pc = "loop" => (InitialLow(fn) <= low /\ low <= high /\ high <= InitialHigh(fn))
  /\ (pc = "done" /\ fn \in Solvers /\ evals > 0 /\ result.kind = "number") =>
       /\ InitialLow(fn) < result.val
       /\ result.val < InitialHigh(fn)
       /\ low <= result.val
       /\ result.val <= high

RECURSIVE C24_Textbook(_, _, _)
C24_Textbook(a, j, i) ==
  IF j = a.nh \div 2
  THEN Intrinsic(a, j, i)
  ELSE NodeValue(a, j, i, C24_Textbook(a, j + 1, i), C24_Textbook(a, j + 1, i + 1))

\* C24: the backward induction over the single array of n + 1 values equals the
\* two-dimensional recursion: when node (j, i) is about to be computed, OptionValue[i]
\* and OptionValue[i + 1] hold the values of level j + 1 and the entries below i those of
\* level j, every index used is in 0..n, and after level 0 OptionValue[0], the value
\* returned, is the root value of the full tree.
C24_InPlaceIsTextbook ==
  LET n == args.nh \div 2
      i == LoopIndex(loopJ, loopI)
  IN /\ pc = "lattice" =>
          /\ DOMAIN OptionValue = 0..n
          /\ loopJ \in 0..(n - 1)
          /\ {i, i + 1} \subseteq 0..n
          /\ OptionValue[i] = C24_Textbook(args, loopJ + 1, i)
          /\ OptionValue[i + 1] = C24_Textbook(args, loopJ + 1, i + 1)
          /\ \A c \in 0..(loopI - 1) :
               OptionValue[LoopIndex(loopJ, c)] = C24_Textbook(args, loopJ, LoopIndex(loopJ, c))
     /\ pc = "done" =>
          /\ OptionValue[0] = C24_Textbook(args, 0, 0)
          /\ result = Number(C24_Textbook(args, 0, 0))

\* C24 witness: in a tree of three steps the loop stands at node (1, 1): OptionValue[0]
\* was overwritten with a level 1 value that differs from the level 2 value it held.
C24_Witness ==
  /\ pc = "lattice"
  /\ args.nh = 6
  /\ loopJ = 1
  /\ loopI = 1
  /\ OptionValue[0] # C24_Textbook(args, 2, 0)
  /\ OptionValue[1] # OptionValue[2]

\* The run with the same inputs and the American flag off.
C25_European(a) == [a EXCEPT !.EuroAmer = "europea"]

\* 0 <= p <= 1 and Df > 0 on the tree of the call.
C25_RiskNeutral(a) ==
  LET c == BinomialCarry(a.r, a.q, ToLowerCase(a.tipo), NormEstilo(a.estilo))
      p == Probability(c.b)
      Df == ExpDt(-c.r)
  IN /\ 0 <= p.num
     /\ p.num <= p.den
     /\ Df.num > 0
     /\ Df.den > 0

\* C25: with the American flag on, 0 <= p <= 1 and Df > 0, every node value the backward
\* induction has produced is at least the intrinsic payoff of its node and at least the
\* value the European run holds at the same entry; the prima returned is at least
\* max(0, z * (s - k)) and at least the European prima, for every settlement style.
C25_AmericanDominates ==
  (/\ pc \in {"lattice", "done"}
   /\ ToLowerCase(args.EuroAmer) = "americana"
   /\ C25_RiskNeutral(args))
    => LET n == args.nh \div 2
           european == ArrayAt(C25_European(args), loopJ, loopI)
       IN /\ \A m \in 0..n : OptionValue[m] >= european[m]
          /\ \A m \in 0..(loopI - 1) : OptionValue[m] >= Intrinsic(args, loopJ, m)
          /\ \A m \in loopI..(loopJ + 1) : OptionValue[m] >= Intrinsic(args, loopJ + 1, m)
          /\ pc = "done" =>
               /\ result.val >= Intrinsic(args, 0, 0)
               /\ Intrinsic(args, 0, 0) = C18_Intrinsic(args)
               /\ result.val >= european[0]

\* C25 witness: an American option on a future with equity_style settlement returned a
\* prima above the European prima: early exercise was worth more at some node.
C25_Witness ==
  /\ pc = "done"
  /\ ToLowerCase(args.EuroAmer) = "americana"
  /\ ToLowerCase(args.tipo) = "futuro"
  /\ NormEstilo(args.estilo) = "equity_style"
  /\ C25_RiskNeutral(args)
  /\ result.val >= Intrinsic(args, 0, 0)
  /\ result.val > ArrayAt(C25_European(args), 0, 1)[0]

====
